---- MODULE Spec2Model ----
(***************************************************************************)
(* SmartLife AI backend: the expense ledger (db.py), the interview         *)
(* question generator (ai.py) and the HTTP handlers in front of them       *)
(* (app.py).                                                               *)
(*                                                                         *)
(* Text is a sequence of strings.  Where the code looks inside a text      *)
(* (strip, lower, strptime, float, ORDER BY) the text is spelled one       *)
(* character per element; the literal parts of the fallback templates are  *)
(* single opaque elements.                                                 *)
(***************************************************************************)
EXTENDS Integers, Sequences, FiniteSets, TLC

VARIABLES
    expenses,   \* the rows of table expenses (a set of records)
    seq,        \* sqlite_sequence of the AUTOINCREMENT key: highest id ever given
    clock,      \* the wall clock, in seconds
    returned,   \* id of a stored row -> the dict add_expense returned for it
    assigned,   \* the ids add_expense has returned so far
    wins,       \* id -> how often delete_expense returned True for it (2: more than once)
    conns,      \* request thread -> its store call and sqlite3 connection
    writer,     \* the thread whose connection holds the write lock (0: none)
    dbCalled,   \* whether the last request called db_manager.add_expense
    request,    \* the last request to an expense endpoint
    response,   \* the last HTTP response
    gen         \* the generator call the last request made (NoGen: none)

vars == <<expenses, seq, clock, returned, assigned, wins, conns, writer,
         dbCalled, request, response, gen>>

ledgerVars == <<expenses, seq, clock, returned, assigned, wins, conns, writer,
               dbCalled, request>>

\* the threads' store calls in progress
connVars == <<conns, writer>>

(***************************************************************************)
(* Python values                                                           *)
(***************************************************************************)
PNone == [t |-> "none"]

PBool(b) == [t |-> "bool", b |-> b]

PInt(n) == [t |-> "int", n |-> n]

PStr(s) == [t |-> "str", s |-> s]

PList(a) == [t |-> "list", a |-> a]

\* a dict keeps its keys in insertion order: k[i] is the key of v[i]
PDict(k, v) == [t |-> "dict", k |-> k, v |-> v]

\* a float: finite (n), +/-inf (n is the sign) or nan
PFloat(f, n) == [t |-> "float", f |-> f, n |-> n]

Fin(n) == PFloat("fin", n)

PosInf == PFloat("inf", 1)

NaN == PFloat("nan", 0)

DictHas(d, key) == \E i \in DOMAIN d.k : d.k[i] = key

DictGet(d, key, default) ==
    IF DictHas(d, key)
    THEN d.v[CHOOSE i \in DOMAIN d.k : d.k[i] = key]
    ELSE default

\* bool(x) of the values a request body or a result can hold
Truthy(x) ==
    CASE x.t = "none"  -> FALSE
      [] x.t = "bool"  -> x.b
      [] x.t = "int"   -> x.n # 0
      [] x.t = "float" -> ~(x.f = "fin" /\ x.n = 0)
      [] x.t = "str"   -> x.s # <<>>
      [] x.t = "list"  -> x.a # <<>>
      [] x.t = "dict"  -> x.k # <<>>

HasLen(x) == x.t \in {"str", "list", "dict"}

PyLen(x) ==
    CASE x.t = "str"  -> Len(x.s)
      [] x.t = "list" -> Len(x.a)
      [] x.t = "dict" -> Len(x.k)

\* what a for loop over x visits: the elements of a list, the characters of
\* a str, the keys of a dict
Iterate(x) ==
    CASE x.t = "list" -> x.a
      [] x.t = "str"  -> [i \in DOMAIN x.s |-> PStr(<<x.s[i]>>)]
      [] x.t = "dict" -> [i \in DOMAIN x.k |-> PStr(x.k[i])]

(***************************************************************************)
(* str methods                                                             *)
(***************************************************************************)
UpperAlpha ==
    <<"A", "B", "C", "D", "E", "F", "G", "H", "I", "J", "K", "L", "M",
      "N", "O", "P", "Q", "R", "S", "T", "U", "V", "W", "X", "Y", "Z">>

LowerAlpha ==
    <<"a", "b", "c", "d", "e", "f", "g", "h", "i", "j", "k", "l", "m",
      "n", "o", "p", "q", "r", "s", "t", "u", "v", "w", "x", "y", "z">>

LowerChar(c) ==
    IF \E i \in DOMAIN UpperAlpha : UpperAlpha[i] = c
    THEN LowerAlpha[CHOOSE i \in DOMAIN UpperAlpha : UpperAlpha[i] = c]
    ELSE c

Lower(s) == [i \in DOMAIN s |-> LowerChar(s[i])]

IsSpace(c) == c \in {" ", "\t", "\n"}

RECURSIVE LStrip(_)
LStrip(s) ==
    IF s # <<>> /\ IsSpace(Head(s)) THEN LStrip(Tail(s)) ELSE s

RECURSIVE RStrip(_)
RStrip(s) ==
    IF s # <<>> /\ IsSpace(s[Len(s)])
    THEN RStrip(SubSeq(s, 1, Len(s) - 1))
    ELSE s

Strip(s) == RStrip(LStrip(s))

Digits == <<"0", "1", "2", "3", "4", "5", "6", "7", "8", "9">>

IsDigit(c) == \E i \in DOMAIN Digits : Digits[i] = c

DigitVal(c) == (CHOOSE i \in DOMAIN Digits : Digits[i] = c) - 1

AllDigits(s) == \A i \in DOMAIN s : IsDigit(s[i])

RECURSIVE DecVal(_)
DecVal(s) ==
    IF s = <<>> THEN 0
    ELSE 10 * DecVal(SubSeq(s, 1, Len(s) - 1)) + DigitVal(s[Len(s)])

RECURSIVE DecStr(_)
DecStr(n) ==
    IF n < 10 THEN <<Digits[n + 1]>>
    ELSE DecStr(n \div 10) \o <<Digits[(n % 10) + 1]>>

\* str(x) of the values a request body can hold under a text key
PyStr(x) ==
    CASE x.t = "str"  -> x.s
      [] x.t = "none" -> <<"N", "o", "n", "e">>
      [] x.t = "bool" -> IF x.b THEN <<"T", "r", "u", "e">>
                                ELSE <<"F", "a", "l", "s", "e">>
      [] x.t = "int"  -> IF x.n < 0 THEN <<"-">> \o DecStr(-x.n)
                                    ELSE DecStr(x.n)

(***************************************************************************)
(* ai.py: the question generator                                           *)
(***************************************************************************)
Intermediate == <<"I", "n", "t", "e", "r", "m", "e", "d", "i", "a", "t", "e">>

Advanced == <<"A", "d", "v", "a", "n", "c", "e", "d">>

Beginner == <<"B", "e", "g", "i", "n", "n", "e", "r">>

All == <<"A", "l", "l">>

QuestionKey == <<"question">>

AnswerKey == <<"answer">>

DifficultyKey == <<"difficulty">>

QuestionDict(q, a, d) ==
    PDict(<<QuestionKey, AnswerKey, DifficultyKey>>, <<PStr(q), PStr(a), PStr(d)>>)

\* the result of a call that may raise
Return(v) == [raised |-> FALSE, v |-> v]

Raise(e) == [raised |-> TRUE, v |-> PStr(<<e>>)]

\* _create_fallback_questions with the third slot tagged Intermediate
FallbackThirdIntermediate(topic) ==
    PList([i \in 1..5 |->
        QuestionDict(
            <<(<<"What are the key concepts and principles in ",
                 "How would you explain ",
                 "What are the most common challenges when working with ",
                 "Can you describe a real-world project where you applied ",
                 "What resources would you recommend for someone learning ">>)[i]>>
              \o topic
              \o <<(<<"?", " to someone with no technical background?", "?", "?", "?">>)[i]>>,
            <<"answer">>,
            IF i = 4 THEN Advanced ELSE Intermediate)])

_create_fallback_questions(topic) ==
    PList(<<
        QuestionDict(
            <<"What are the key concepts and principles in ">> \o topic \o <<"?">>,
            <<"The key concepts in ">> \o topic
                \o <<" include fundamental principles, best practices, and core methodologies that form the foundation of this field.">>,
            Intermediate),
        QuestionDict(
            <<"How would you explain ">> \o topic
                \o <<" to someone with no technical background?">>,
            <<"I would use analogies and simple language to explain ">> \o topic
                \o <<", focusing on practical benefits and real-world applications.">>,
            Intermediate),
        QuestionDict(
            <<"What are the most common challenges when working with ">> \o topic
                \o <<"?">>,
            <<"Common challenges include complexity management, performance optimization, and maintaining code quality while scaling applications.">>,
            Advanced),
        QuestionDict(
            <<"Can you describe a real-world project where you applied ">> \o topic
                \o <<"?">>,
            <<"In a real-world project, I would apply ">> \o topic
                \o <<" by identifying specific use cases, implementing best practices, and measuring success through key metrics.">>,
            Advanced),
        QuestionDict(
            <<"What resources would you recommend for someone learning ">> \o topic
                \o <<"?">>,
            <<"I recommend official documentation, hands-on projects, online courses, and community forums for comprehensive learning of ">>
                \o topic \o <<".">>,
            Intermediate)
    >>)

\* The reply text of the remote model, as lexical tokens: punctuation, a
\* literal (a scalar or an object, carried with its value) or a bare word.
Tok(p) == [tok |-> p]

Lit(v) == [tok |-> "lit", v |-> v]

IsLit(k) == k.tok = "lit"

\* json.loads: a single literal, or "[" literal ("," literal)* "]"; anything
\* else is a JSONDecodeError
JsonLoads(text) ==
    LET n == Len(text)
        inner == SubSeq(text, 2, n - 1)
        m == n - 2
    IN  IF n = 1 /\ IsLit(text[1])
        THEN [ok |-> TRUE, v |-> text[1].v]
        ELSE IF n >= 2 /\ text[1] = Tok("[") /\ text[n] = Tok("]")
                /\ (m = 0 \/ m % 2 = 1)
                /\ \A i \in 1..m :
                      IF i % 2 = 1 THEN IsLit(inner[i]) ELSE inner[i] = Tok(",")
        THEN [ok |-> TRUE,
              v |-> PList([i \in 1..((m + 1) \div 2) |-> inner[2 * i - 1].v])]
        ELSE [ok |-> FALSE, v |-> PNone]

\* the outcome of self.llm(messages): an exception, or a reply
LlmRaises == [raises |-> TRUE, content |-> <<>>]

LlmReplies(text) == [raises |-> FALSE, content |-> text]

\* generate_interview_questions that takes the fallback only for fewer than 5
GenerateAtLeastFive(topic, outcome) ==
    LET fallback == [v |-> _create_fallback_questions(topic),
                     path |-> "FALLBACK", calls |-> 1]
        parsed == JsonLoads(outcome.content)
    IN  IF outcome.raises THEN fallback
        ELSE IF ~parsed.ok THEN fallback
        ELSE IF ~HasLen(parsed.v) THEN fallback
        ELSE IF PyLen(parsed.v) < 5 THEN fallback
        ELSE [v |-> parsed.v, path |-> "SUCCESS", calls |-> 1]

\* generate_interview_questions that hands back the parsed questions sorted
\* by difficulty (Advanced first)
GenerateSorted(topic, outcome) ==
    LET fallback == [v |-> _create_fallback_questions(topic),
                     path |-> "FALLBACK", calls |-> 1]
        parsed == JsonLoads(outcome.content)
        isAdv(q) == q.t = "dict" /\ DictGet(q, DifficultyKey, PNone) = PStr(Advanced)
    IN  IF outcome.raises THEN fallback
        ELSE IF ~parsed.ok THEN fallback
        ELSE IF ~HasLen(parsed.v) THEN fallback
        ELSE IF PyLen(parsed.v) # 5 THEN fallback
        ELSE [v |-> IF parsed.v.t = "list"
                    THEN PList(SelectSeq(parsed.v.a, isAdv)
                               \o SelectSeq(parsed.v.a, LAMBDA q : ~isAdv(q)))
                    ELSE parsed.v,
              path |-> "SUCCESS", calls |-> 1]

\* One call: the value returned, the terminal state reached and the number
\* of remote calls made.  len() of a parsed None, bool or number raises
\* TypeError, which the outer except turns into the fallback.
generate_interview_questions(topic, outcome) ==
    LET fallback == [v |-> _create_fallback_questions(topic),
                     path |-> "FALLBACK", calls |-> 1]
        parsed == JsonLoads(outcome.content)
    IN  IF outcome.raises THEN fallback
        ELSE IF ~parsed.ok THEN fallback
        ELSE IF ~HasLen(parsed.v) THEN fallback
        ELSE IF PyLen(parsed.v) # 5 THEN fallback
        ELSE [v |-> parsed.v, path |-> "SUCCESS", calls |-> 1]

\* q.get("difficulty", "").lower() == difficulty.lower(); q.get on a value
\* that is no dict, or .lower() on a value that is no str, raises
\* AttributeError
DifficultyTestRaises(q) ==
    \/ q.t # "dict"
    \/ DictGet(q, DifficultyKey, PStr(<<>>)).t # "str"

DifficultyMatches(q, difficulty) ==
    Lower(DictGet(q, DifficultyKey, PStr(<<>>)).s) = Lower(difficulty)

RECURSIVE FilterByDifficulty(_, _)
FilterByDifficulty(qs, difficulty) ==
    IF qs = <<>> THEN <<>>
    ELSE IF DifficultyMatches(Head(qs), difficulty)
         THEN <<Head(qs)>> \o FilterByDifficulty(Tail(qs), difficulty)
         ELSE FilterByDifficulty(Tail(qs), difficulty)

get_question_by_difficulty(topic, difficulty, outcome) ==
    LET g == generate_interview_questions(topic, outcome)
        all_questions == Iterate(g.v)
    IN  IF difficulty = All THEN Return(g.v)
        ELSE IF \E i \in DOMAIN all_questions : DifficultyTestRaises(all_questions[i])
        THEN Raise("AttributeError")
        ELSE Return(PList(FilterByDifficulty(all_questions, difficulty)))

(***************************************************************************)
(* What the remote model may answer                                        *)
(***************************************************************************)
\* the i-th question of a remote reply; the second is tagged in lower case
RemoteQuestion(i) ==
    QuestionDict(<<"q", Digits[i + 1]>>, <<"a", Digits[i + 1]>>,
                 IF i = 2 THEN Lower(Advanced)
                 ELSE IF i % 2 = 1 THEN Advanced ELSE Intermediate)

\* "[" e1 "," e2 ... "]"
RECURSIVE Commas(_)
Commas(elems) ==
    IF Len(elems) <= 1 THEN [i \in DOMAIN elems |-> Lit(elems[i])]
    ELSE <<Lit(Head(elems)), Tok(",")>> \o Commas(Tail(elems))

ArrayText(elems) == <<Tok("[")>> \o Commas(elems) \o <<Tok("]")>>

\* the number of questions asked of the model
NumQuestions == 5

\* the longest array the remote model answers
MaxReplyLen == 6

RemoteQuestions(n) == [i \in 1..n |-> RemoteQuestion(i)]

\* a question without the difficulty key, and one whose difficulty is null
NoDifficulty == PDict(<<QuestionKey, AnswerKey>>, <<PStr(<<"q">>), PStr(<<"a">>)>>)

NullDifficulty ==
    PDict(<<QuestionKey, AnswerKey, DifficultyKey>>,
          <<PStr(<<"q">>), PStr(<<"a">>), PNone>>)

ReplyTexts ==
    \* arrays of 0..MaxReplyLen well-formed questions
    { ArrayText(RemoteQuestions(n)) : n \in 0..MaxReplyLen }
    \cup
    { \* 5 questions in another order
      ArrayText([i \in 1..NumQuestions |-> RemoteQuestion(NumQuestions + 1 - i)]),
      \* 5 elements, one lacking difficulty / with a null difficulty / no object
      ArrayText([i \in 1..NumQuestions |->
                    IF i = 3 THEN NoDifficulty ELSE RemoteQuestion(i)]),
      ArrayText([i \in 1..NumQuestions |->
                    IF i = 3 THEN NullDifficulty ELSE RemoteQuestion(i)]),
      ArrayText([i \in 1..NumQuestions |-> PInt(i)]),
      \* JSON that is no array
      <<Lit(PNone)>>,
      <<Lit(PInt(NumQuestions))>>,
      <<Lit(PStr(<<"a", "b", "c", "d", "e">>))>>,
      <<Lit(PDict([i \in 1..NumQuestions |-> <<"k", Digits[i + 1]>>],
                  [i \in 1..NumQuestions |-> RemoteQuestion(i)]))>>,
      \* no JSON: prose before the array, a reply cut short
      <<Tok("Here"), Tok("[")>> \o Commas(RemoteQuestions(NumQuestions)) \o <<Tok("]")>>,
      <<Tok("[")>> \o Commas(RemoteQuestions(NumQuestions)) }

Outcomes == {LlmRaises} \cup { LlmReplies(text) : text \in ReplyTexts }

(***************************************************************************)
(* app.py: the interview endpoints                                         *)
(***************************************************************************)
ErrorResponse(code, message) ==
    [code |-> code, body |-> [status |-> "error", message |-> message]]

TopicKey == <<"topic">>

\* the checks both interview endpoints make on the body: the rejection, or
\* the topic
TopicOf(data) ==
    IF ~Truthy(data)
    THEN [ok |-> FALSE, response |-> ErrorResponse(400, <<"No JSON data provided">>)]
    ELSE IF ~DictHas(data, TopicKey)
    THEN [ok |-> FALSE, response |-> ErrorResponse(400, <<"Topic is required">>)]
    ELSE IF Strip(PyStr(DictGet(data, TopicKey, PNone))) = <<>>
    THEN [ok |-> FALSE, response |-> ErrorResponse(400, <<"Topic cannot be empty">>)]
    ELSE [ok |-> TRUE, topic |-> Strip(PyStr(DictGet(data, TopicKey, PNone)))]

valid_difficulties == {Beginner, Intermediate, Advanced, All}

NoResponse == [code |-> 0, body |-> [status |-> "none", message |-> <<>>]]

NoRequest == [op |-> "none", data |-> PNone, id |-> 0]

NoGen ==
    [op |-> "none", topic |-> <<>>, outcome |-> LlmRaises, difficulty |-> <<>>,
     v |-> PNone, path |-> "START", calls |-> 0, filtered |-> Return(PNone)]

\* POST /api/interview/questions
app_generate_interview_questions(data, outcome) ==
    LET t == TopicOf(data) IN
    IF ~t.ok
    THEN /\ response' = t.response
         /\ gen' = NoGen
    ELSE LET g == generate_interview_questions(t.topic, outcome) IN
         /\ gen' = [op |-> "generate", topic |-> t.topic, outcome |-> outcome,
                    difficulty |-> <<>>, v |-> g.v, path |-> g.path,
                    calls |-> g.calls, filtered |-> Return(g.v)]
         /\ response' =
               [code |-> 200,
                body |-> [status |-> "success",
                          message |-> <<"Generated 5 interview questions for '">>
                                         \o t.topic \o <<"'">>,
                          topic |-> t.topic,
                          data |-> g.v]]

\* POST /api/interview/questions/<difficulty>
generate_interview_questions_by_difficulty(difficulty, data, outcome) ==
    LET t == TopicOf(data) IN
    IF ~t.ok
    THEN /\ response' = t.response
         /\ gen' = NoGen
    ELSE IF difficulty \notin valid_difficulties
    THEN /\ response' = ErrorResponse(400, <<"Invalid difficulty level. Must be one of: Beginner, Intermediate, Advanced, All">>)
         /\ gen' = NoGen
    ELSE LET g == generate_interview_questions(t.topic, outcome)
             f == get_question_by_difficulty(t.topic, difficulty, outcome)
         IN
         /\ gen' = [op |-> "by_difficulty", topic |-> t.topic, outcome |-> outcome,
                    difficulty |-> difficulty, v |-> g.v, path |-> g.path,
                    calls |-> g.calls, filtered |-> f]
         /\ response' =
               IF f.raised
               THEN ErrorResponse(500, <<"Internal server error: ">> \o f.v.s)
               ELSE [code |-> 200,
                     body |-> [status |-> "success",
                               message |-> <<"Generated interview questions for '">>
                                              \o t.topic \o <<"' (Difficulty: ">>
                                              \o difficulty \o <<")">>,
                               topic |-> t.topic,
                               difficulty |-> difficulty,
                               data |-> f.v]]

TopicBodies ==
    { PNone,
      PDict(<<>>, <<>>),
      PDict(<<<<"subject">>>>, <<PStr(<<"J", "a", "v", "a">>)>>),
      PDict(<<TopicKey>>, <<PStr(<<"J", "a", "v", "a">>)>>),
      PDict(<<TopicKey>>, <<PStr(<<" ", "M", "L", " ">>)>>),
      PDict(<<TopicKey>>, <<PStr(<<" ">>)>>) }

PathDifficulties ==
    valid_difficulties \cup {<<"H", "a", "r", "d">>}

PostInterviewQuestions ==
    /\ \E data \in TopicBodies, outcome \in Outcomes :
          app_generate_interview_questions(data, outcome)
    /\ UNCHANGED ledgerVars

PostInterviewQuestionsByDifficulty ==
    /\ \E difficulty \in PathDifficulties, data \in TopicBodies, outcome \in Outcomes :
          generate_interview_questions_by_difficulty(difficulty, data, outcome)
    /\ UNCHANGED ledgerVars

(***************************************************************************)
(* Conversions the expense handler and the store rely on                   *)
(***************************************************************************)
\* float(s) of a str: surrounding blanks are dropped, then an optional sign
\* and either decimal digits, "nan", "inf" or "infinity" in any case.
\* (Amounts are whole numbers here; fractions are not spelled.)
ParseFloat(s) ==
    LET t == Strip(s)
        signed == t # <<>> /\ Head(t) \in {"+", "-"}
        sign == IF signed /\ Head(t) = "-" THEN -1 ELSE 1
        body == IF signed THEN Tail(t) ELSE t
    IN  IF Lower(body) = <<"n", "a", "n">>
        THEN [ok |-> TRUE, f |-> NaN]
        ELSE IF Lower(body) \in {<<"i", "n", "f">>,
                                 <<"i", "n", "f", "i", "n", "i", "t", "y">>}
        THEN [ok |-> TRUE, f |-> PFloat("inf", sign)]
        ELSE IF body # <<>> /\ AllDigits(body)
        THEN [ok |-> TRUE, f |-> Fin(sign * DecVal(body))]
        ELSE [ok |-> FALSE, f |-> NaN]

\* float(x): ok is FALSE where float raises ValueError or TypeError
ToFloat(x) ==
    CASE x.t = "float" -> [ok |-> TRUE, f |-> x]
      [] x.t = "int"   -> [ok |-> TRUE, f |-> Fin(x.n)]
      [] x.t = "bool"  -> [ok |-> TRUE, f |-> Fin(IF x.b THEN 1 ELSE 0)]
      [] x.t = "str"   -> ParseFloat(x.s)
      [] OTHER         -> [ok |-> FALSE, f |-> NaN]

\* amount < 0 in place of amount <= 0
LtZero(f) ==
    \/ f.f = "fin" /\ f.n < 0
    \/ f.f = "inf" /\ f.n < 0

\* amount <= 0 (false of nan)
LeqZero(f) ==
    \/ f.f = "fin" /\ f.n <= 0
    \/ f.f = "inf" /\ f.n < 0

\* amount > 0
GtZero(f) ==
    \/ f.f = "fin" /\ f.n > 0
    \/ f.f = "inf" /\ f.n > 0

IsLeap(y) == (y % 4 = 0 /\ y % 100 # 0) \/ y % 400 = 0

DaysInMonth(y, m) ==
    IF m = 2 THEN (IF IsLeap(y) THEN 29 ELSE 28)
    ELSE IF m \in {4, 6, 9, 11} THEN 30 ELSE 31

\* the %m and %d fields of strptime: two digits (1[0-2]|0[1-9], resp.
\* 3[01]|[12]\d|0[1-9]) where they fit, else one digit [1-9]; width 0: none
MonthWidth(s) ==
    IF Len(s) >= 2 /\ ((s[1] = "1" /\ s[2] \in {"0", "1", "2"})
                       \/ (s[1] = "0" /\ IsDigit(s[2]) /\ s[2] # "0"))
    THEN 2
    ELSE IF Len(s) >= 1 /\ IsDigit(s[1]) /\ s[1] # "0" THEN 1 ELSE 0

DayWidth(s) ==
    IF Len(s) >= 2 /\ ((s[1] = "3" /\ s[2] \in {"0", "1"})
                       \/ (s[1] \in {"1", "2"} /\ IsDigit(s[2]))
                       \/ (s[1] = "0" /\ IsDigit(s[2]) /\ s[2] # "0"))
    THEN 2
    ELSE IF Len(s) >= 1 /\ IsDigit(s[1]) /\ s[1] # "0" THEN 1 ELSE 0

\* datetime.strptime(s, '%Y-%m-%d') of a str: ok is FALSE where it raises
\* ValueError (no match, text left over, or no such day)
Strptime(s) ==
    LET bad == [ok |-> FALSE, y |-> 0, m |-> 0, d |-> 0]
        afterY == SubSeq(s, 6, Len(s))
        mw == MonthWidth(afterY)
        afterM == SubSeq(afterY, mw + 2, Len(afterY))
        dw == DayWidth(afterM)
        y == DecVal(SubSeq(s, 1, 4))
        m == DecVal(SubSeq(afterY, 1, mw))
        d == DecVal(SubSeq(afterM, 1, dw))
    IN  IF ~(Len(s) >= 5 /\ AllDigits(SubSeq(s, 1, 4)) /\ s[5] = "-") THEN bad
        ELSE IF mw = 0 \/ Len(afterY) < mw + 1 \/ afterY[mw + 1] # "-" THEN bad
        ELSE IF dw = 0 \/ Len(afterM) # dw THEN bad
        ELSE IF y < 1 \/ d > DaysInMonth(y, m) THEN bad
        ELSE [ok |-> TRUE, y |-> y, m |-> m, d |-> d]

\* n in decimal, padded with zeros to w characters
RECURSIVE Pad(_, _)
Pad(n, w) ==
    IF Len(DecStr(n)) >= w THEN DecStr(n)
    ELSE <<"0">> \o Pad(n, w - 1)

\* strftime("%Y-%m-%d")
Strftime(y, m, d) == Pad(y, 4) \o <<"-">> \o Pad(m, 2) \o <<"-">> \o Pad(d, 2)

\* datetime.now(): the clock runs within one day
Now == [y |-> 2024, m |-> 10, d |-> 1]

\* what SQLite stores for a value bound to the REAL NOT NULL column amount:
\* NaN is bound as NULL, which the column refuses
AmountRefused(f) == f.f = "nan"

\* what SQLite stores for a value bound to the TEXT column date: a str as
\* it is, an int (a bool is bound as int) as its decimal text
DateStored(x) ==
    CASE x.t = "str"  -> x.s
      [] x.t = "int"  -> PyStr(x)
      [] x.t = "bool" -> PyStr(PInt(IF x.b THEN 1 ELSE 0))

(***************************************************************************)
(* db.py: DatabaseManager                                                  *)
(***************************************************************************)
\* the inserts the model follows
MaxId == 2

\* the seconds the model follows
MaxClock == 1

Ids == 1..(MaxId + 1)

\* the request threads that call the store at the same time
NumThreads == 2

Threads == 1..NumThreads

\* a thread that is in no store call: op, arg and result are of its last call
Idle == [pc |-> "idle", op |-> "none", arg |-> PNone, pending |-> PNone,
         result |-> PNone]

\* add_expense on a table whose id is a plain INTEGER PRIMARY KEY: the id after
\* the highest id now in the table
AddAfterHighestStored(amount, category, note, date) ==
    LET stamped == IF date = PNone
                   THEN PStr(Strftime(Now.y, Now.m, Now.d))
                   ELSE date
        stored == { r.id : r \in expenses }
        expense_id == IF stored = {} THEN 1
                      ELSE (CHOOSE i \in stored : \A j \in stored : j <= i) + 1
    IN  IF AmountRefused(amount)
        THEN [raised |-> TRUE]
        ELSE [raised |-> FALSE,
              row |-> [id |-> expense_id, amount |-> amount,
                       category |-> category, note |-> note,
                       date |-> DateStored(stamped), created_at |-> clock],
              v |-> [id |-> expense_id, amount |-> amount,
                     category |-> PStr(category), note |-> PStr(note),
                     date |-> stamped]]

\* add_expense that returns cursor.rowcount (1 after an INSERT) as the id
AddReturnsRowcount(amount, category, note, date) ==
    LET stamped == IF date = PNone
                   THEN PStr(Strftime(Now.y, Now.m, Now.d))
                   ELSE date
        expense_id == seq + 1
    IN  IF AmountRefused(amount)
        THEN [raised |-> TRUE]
        ELSE [raised |-> FALSE,
              row |-> [id |-> expense_id, amount |-> amount,
                       category |-> category, note |-> note,
                       date |-> DateStored(stamped), created_at |-> clock],
              v |-> [id |-> 1, amount |-> amount,
                     category |-> PStr(category), note |-> PStr(note),
                     date |-> stamped]]

\* add_expense: raises (sqlite3.IntegrityError, re-raised), or inserts row
\* and returns dict v.  AUTOINCREMENT gives the id after the highest ever
\* given; created_at defaults to CURRENT_TIMESTAMP.
db_add_expense(amount, category, note, date) ==
    LET stamped == IF date = PNone
                   THEN PStr(Strftime(Now.y, Now.m, Now.d))
                   ELSE date
        expense_id == seq + 1
    IN  IF AmountRefused(amount)
        THEN [raised |-> TRUE]
        ELSE [raised |-> FALSE,
              row |-> [id |-> expense_id, amount |-> amount,
                       category |-> category, note |-> note,
                       date |-> DateStored(stamped), created_at |-> clock],
              v |-> [id |-> expense_id, amount |-> amount,
                     category |-> PStr(category), note |-> PStr(note),
                     date |-> stamped]]

\* RowDict with the columns category and note taken for one another
RowDictSwapped(row) ==
    [id |-> row.id, amount |-> row.amount, category |-> PStr(row.note),
     note |-> PStr(row.category), date |-> PStr(row.date),
     created_at |-> row.created_at]

\* a row as the dict the SELECTs build
RowDict(row) ==
    [id |-> row.id, amount |-> row.amount, category |-> PStr(row.category),
     note |-> PStr(row.note), date |-> PStr(row.date),
     created_at |-> row.created_at]

\* the code points of the characters dates are made of
Ord(c) ==
    CASE c = " " -> 32
      [] c = "-" -> 45
      [] IsDigit(c) -> 48 + DigitVal(c)

\* a < b as SQLite compares TEXT (BINARY collation)
RECURSIVE TextLess(_, _)
TextLess(a, b) ==
    IF b = <<>> THEN FALSE
    ELSE IF a = <<>> THEN TRUE
    ELSE IF Head(a) # Head(b) THEN Ord(Head(a)) < Ord(Head(b))
    ELSE TextLess(Tail(a), Tail(b))

\* ORDER BY date DESC, created_at DESC: r may come before q
OrderedBefore(r, q) ==
    \/ TextLess(q.date, r.date)
    \/ r.date = q.date /\ r.created_at >= q.created_at

\* get_all_expenses: every row once, in an order the ORDER BY allows (rows
\* equal in both keys come in either order)
get_all_expenses ==
    LET n == Cardinality(expenses) IN
    { [i \in 1..n |-> RowDict(f[i])] :
        f \in { g \in [1..n -> expenses] :
                  /\ \A i, j \in 1..n : i # j => g[i] # g[j]
                  /\ \A i, j \in 1..n : i < j => OrderedBefore(g[i], g[j]) } }

\* get_expense_by_id: the dict of the row, or None
get_expense_by_id(expense_id) ==
    IF \E r \in expenses : r.id = expense_id
    THEN RowDict(CHOOSE r \in expenses : r.id = expense_id)
    ELSE PNone

\* delete_expense that reports success whether or not a row was removed
DeleteAlwaysTrue(expense_id) ==
    [success |-> TRUE,
     rows |-> { r \in expenses : r.id # expense_id }]

\* delete_expense: cursor.rowcount > 0, and the rows left
delete_expense(expense_id) ==
    [success |-> \E r \in expenses : r.id = expense_id,
     rows |-> { r \in expenses : r.id # expense_id }]

(***************************************************************************)
(* app.py: the expense endpoints                                           *)
(***************************************************************************)
AmountKey == <<"amount">>

CategoryKey == <<"category">>

NoteKey == <<"note">>

DateKey == <<"date">>

required_fields == <<AmountKey, CategoryKey>>

\* ', '.join(names)
RECURSIVE Join(_)
Join(names) ==
    IF names = <<>> THEN <<>>
    ELSE IF Len(names) = 1 THEN Head(names)
    ELSE Head(names) \o <<", ">> \o Join(Tail(names))

\* The checks of add_expense before the store is called: the response that
\* ends the request, or the arguments of db_manager.add_expense.  strptime
\* of a truthy date that is no str raises TypeError, which the outer except
\* answers with 500.
ValidateExpense(data) ==
    LET reject(code, message) == [ok |-> FALSE, response |-> ErrorResponse(code, message)]
        missing_fields == SelectSeq(required_fields, LAMBDA field : ~DictHas(data, field))
        amount == ToFloat(DictGet(data, AmountKey, PNone))
        category == Strip(PyStr(DictGet(data, CategoryKey, PNone)))
        note == Strip(PyStr(DictGet(data, NoteKey, PStr(<<>>))))
        date == DictGet(data, DateKey, PNone)
    IN  IF ~Truthy(data) THEN reject(400, <<"No JSON data provided">>)
        ELSE IF missing_fields # <<>>
        THEN reject(400, <<"Missing required fields: ">> \o Join(missing_fields))
        ELSE IF ~amount.ok THEN reject(400, <<"Amount must be a valid number">>)
        ELSE IF LeqZero(amount.f) THEN reject(400, <<"Amount must be greater than 0">>)
        ELSE IF category = <<>> THEN reject(400, <<"Category cannot be empty">>)
        ELSE IF Truthy(date) /\ date.t # "str"
        THEN reject(500, <<"Internal server error: ", "TypeError">>)
        ELSE IF Truthy(date) /\ ~Strptime(date.s).ok
        THEN reject(400, <<"Date must be in YYYY-MM-DD format">>)
        ELSE [ok |-> TRUE, amount |-> amount.f, category |-> category,
              note |-> note, date |-> date]

\* wins after one more delete_expense(expense_id) that returned True
Won(expense_id) ==
    [wins EXCEPT ![expense_id] = IF @ = 0 THEN 1 ELSE 2]

\* add_expense that checks the date only after the row is written
AddBeforeDateCheck(data) ==
    LET checked == ValidateExpense(data)
        late == ~checked.ok /\ checked.response.code = 400
                /\ checked.response.body.message = <<"Date must be in YYYY-MM-DD format">>
        expense == db_add_expense(ToFloat(DictGet(data, AmountKey, PNone)).f,
                                  Strip(PyStr(DictGet(data, CategoryKey, PNone))),
                                  Strip(PyStr(DictGet(data, NoteKey, PStr(<<>>)))),
                                  DictGet(data, DateKey, PNone))
    IN
    /\ request' = [op |-> "add", data |-> data, id |-> 0]
    /\ IF ~checked.ok /\ ~late
       THEN /\ response' = checked.response
            /\ dbCalled' = FALSE
            /\ UNCHANGED <<expenses, seq, returned, assigned>>
       ELSE /\ dbCalled' = TRUE
            /\ IF expense.raised
               THEN /\ response' = ErrorResponse(500,
                            <<"Internal server error: ", "IntegrityError">>)
                    /\ UNCHANGED <<expenses, seq, returned, assigned>>
               ELSE /\ seq < MaxId
                    /\ expenses' = expenses \cup {expense.row}
                    /\ seq' = expense.row.id
                    /\ assigned' = assigned \cup {expense.row.id}
                    /\ returned' = [i \in DOMAIN returned \cup {expense.row.id} |->
                                       IF i = expense.row.id THEN expense.v
                                       ELSE returned[i]]
                    /\ response' =
                          IF late THEN checked.response
                          ELSE [code |-> 201,
                                body |-> [status |-> "success",
                                          message |-> <<"Expense added successfully">>,
                                          data |-> expense.v]]

\* POST /api/expenses
app_add_expense(data) ==
    LET checked == ValidateExpense(data) IN
    /\ request' = [op |-> "add", data |-> data, id |-> 0]
    /\ IF ~checked.ok
       THEN /\ response' = checked.response
            /\ dbCalled' = FALSE
            /\ UNCHANGED <<expenses, seq, returned, assigned>>
       ELSE LET expense == db_add_expense(checked.amount, checked.category,
                                          checked.note, checked.date)
            IN  /\ dbCalled' = TRUE
                /\ IF expense.raised
                   THEN /\ response' = ErrorResponse(500,
                                <<"Internal server error: ", "IntegrityError">>)
                        /\ UNCHANGED <<expenses, seq, returned, assigned>>
                   ELSE /\ seq < MaxId
                        /\ expenses' = expenses \cup {expense.row}
                        /\ seq' = expense.row.id
                        /\ assigned' = assigned \cup {expense.row.id}
                        /\ returned' = [i \in DOMAIN returned \cup {expense.row.id} |->
                                           IF i = expense.row.id THEN expense.v
                                           ELSE returned[i]]
                        /\ response' =
                              [code |-> 201,
                               body |-> [status |-> "success",
                                         message |-> <<"Expense added successfully">>,
                                         data |-> expense.v]]

\* GET /api/expenses
app_get_all_expenses(listed) ==
    /\ request' = [op |-> "list", data |-> PNone, id |-> 0]
    /\ response' =
          [code |-> 200,
           body |-> [status |-> "success",
                     message |-> <<"Retrieved ">> \o DecStr(Len(listed)) \o <<" expenses">>,
                     data |-> listed]]
    /\ dbCalled' = FALSE
    /\ UNCHANGED <<expenses, seq, returned, assigned>>

\* GET /api/expenses/<expense_id>
app_get_expense_by_id(expense_id) ==
    LET expense == get_expense_by_id(expense_id) IN
    /\ request' = [op |-> "get", data |-> PNone, id |-> expense_id]
    /\ response' =
          IF expense = PNone
          THEN ErrorResponse(404, <<"Expense with ID ">> \o DecStr(expense_id)
                                      \o <<" not found">>)
          ELSE [code |-> 200, body |-> [status |-> "success", data |-> expense]]
    /\ dbCalled' = FALSE
    /\ UNCHANGED <<expenses, seq, returned, assigned>>

\* DELETE /api/expenses/<expense_id>
app_delete_expense(expense_id) ==
    LET deleted == delete_expense(expense_id) IN
    /\ request' = [op |-> "delete", data |-> PNone, id |-> expense_id]
    /\ expenses' = deleted.rows
    /\ returned' = [i \in DOMAIN returned \ {expense_id} |-> returned[i]]
    /\ response' =
          IF ~deleted.success
          THEN ErrorResponse(404, <<"Expense with ID ">> \o DecStr(expense_id)
                                      \o <<" not found">>)
          ELSE [code |-> 200,
                body |-> [status |-> "success",
                          message |-> <<"Expense with ID ">> \o DecStr(expense_id)
                                         \o <<" deleted successfully">>]]
    /\ wins' = IF deleted.success THEN Won(expense_id) ELSE wins
    /\ dbCalled' = FALSE
    /\ UNCHANGED <<seq, assigned>>

(***************************************************************************)
(* The requests the model sends                                            *)
(***************************************************************************)
Obj(pairs) == PDict([i \in DOMAIN pairs |-> pairs[i][1]],
                    [i \in DOMAIN pairs |-> pairs[i][2]])

Food == <<"F", "o", "o", "d">>

Five == <<AmountKey, PInt(5)>>

InFood == <<CategoryKey, PStr(Food)>>

DateOf(d) == <<DateKey, d>>

Jan15 == <<"2", "0", "2", "4", "-", "0", "1", "-", "1", "5">>

Sep1Short == <<"2", "0", "2", "4", "-", "9", "-", "1">>

Month13 == <<"2", "0", "2", "4", "-", "1", "3", "-", "0", "1">>

\* bodies that pass every check of the handler
AcceptedBodies ==
    { Obj(<<Five, InFood, <<NoteKey, PStr(<<"L", "u", "n", "c", "h">>)>>,
            DateOf(PStr(Jan15))>>),
      Obj(<<Five, InFood>>),
      Obj(<<<<AmountKey, PStr(<<"i", "n", "f">>)>>,
            <<CategoryKey, PStr(<<" ">> \o Food \o <<" ">>)>>,
            <<NoteKey, PStr(<<" ", "x">>)>>, DateOf(PStr(Sep1Short))>>),
      Obj(<<Five, InFood, DateOf(PStr(<<>>))>>),
      Obj(<<Five, InFood, DateOf(PInt(0))>>) }

\* bodies that do not
RejectedBodies ==
    { PNone,
      Obj(<<>>),
      Obj(<<InFood>>),
      Obj(<<Five>>),
      Obj(<<<<AmountKey, PInt(0)>>, InFood>>),
      Obj(<<<<AmountKey, PInt(-10)>>, <<CategoryKey, PStr(<<>>)>>>>),
      Obj(<<<<AmountKey, PStr(<<"a", "b", "c">>)>>, InFood>>),
      Obj(<<<<AmountKey, PNone>>, InFood>>),
      Obj(<<<<AmountKey, PStr(<<"n", "a", "n">>)>>, InFood>>),
      Obj(<<Five, <<CategoryKey, PStr(<<" ">>)>>>>),
      Obj(<<Five, InFood, DateOf(PStr(Month13))>>),
      Obj(<<Five, InFood, DateOf(PInt(5))>>) }

ExpenseBodies == AcceptedBodies \cup RejectedBodies

AddExpense ==
    /\ \E data \in ExpenseBodies : app_add_expense(data)
    /\ UNCHANGED <<clock, gen, wins, connVars>>

GetAllExpenses ==
    /\ \E listed \in get_all_expenses : app_get_all_expenses(listed)
    /\ UNCHANGED <<clock, gen, wins, connVars>>

GetExpenseById ==
    /\ \E expense_id \in Ids : app_get_expense_by_id(expense_id)
    /\ UNCHANGED <<clock, gen, wins, connVars>>

DeleteExpense ==
    /\ \E expense_id \in Ids : app_delete_expense(expense_id)
    /\ UNCHANGED <<clock, gen, connVars>>

\* a second passes
Tick ==
    /\ clock < MaxClock
    /\ clock' = clock + 1
    /\ UNCHANGED <<expenses, seq, returned, assigned, wins, connVars,
                   dbCalled, request, response, gen>>

Init ==
    /\ expenses = {}
    /\ seq = 0
    /\ clock = 0
    /\ returned = <<>>
    /\ assigned = {}
    /\ wins = [i \in Ids |-> 0]
    /\ conns = [p \in Threads |-> Idle]
    /\ writer = 0
    /\ dbCalled = FALSE
    /\ request = NoRequest
    /\ response = NoResponse
    /\ gen = NoGen

(***************************************************************************)
(* One call of generate_interview_questions, step by step                  *)
(***************************************************************************)
\* the topics the generator is called with
CallTopics ==
    { <<"J", "a", "v", "a">>, <<"M", "L">>, <<"S", "Q", "L">> }

Terminal == {"SUCCESS", "FALLBACK"}

\* the generator is entered: no call is running (the calls of one generator
\* object follow one another)
StartCall ==
    /\ gen.op = "none" \/ (gen.op = "call" /\ gen.path \in Terminal)
    /\ \E topic \in CallTopics :
          gen' = [op |-> "call", topic |-> topic, outcome |-> LlmRaises,
                  difficulty |-> <<>>, v |-> PNone, path |-> "START",
                  calls |-> 0, filtered |-> Return(PNone), replied |-> FALSE]
    /\ UNCHANGED <<ledgerVars, response>>

\* self.llm(messages): the remote call is made
InvokeRemote ==
    /\ gen.op = "call"
    /\ gen.path = "START"
    /\ gen' = [gen EXCEPT !.path = "REMOTE_CALL", !.calls = @ + 1]
    /\ UNCHANGED <<ledgerVars, response>>

\* the remote call returns a reply, or raises
RemoteReturns ==
    /\ gen.op = "call"
    /\ gen.path = "REMOTE_CALL"
    /\ ~gen.replied
    /\ \E outcome \in Outcomes :
          gen' = [gen EXCEPT !.outcome = outcome, !.replied = TRUE]
    /\ UNCHANGED <<ledgerVars, response>>

\* a generator that starts over when the remote call raised or the reply was
\* unusable, once
RetryAfterFailure(topic, outcome) ==
    LET g == generate_interview_questions(topic, outcome) IN
    IF g.path = "FALLBACK" /\ gen.calls < 2
    THEN gen' = [gen EXCEPT !.path = "START", !.replied = FALSE]
    ELSE gen' = [gen EXCEPT !.v = g.v, !.path = g.path]

\* the rest of the function after the remote call: parse, count, return the
\* parsed value or the fallback
FinishCall(topic, outcome) ==
    LET g == generate_interview_questions(topic, outcome) IN
    gen' = [gen EXCEPT !.v = g.v, !.path = g.path]

Finish ==
    /\ gen.op = "call"
    /\ gen.path = "REMOTE_CALL"
    /\ gen.replied
    /\ FinishCall(gen.topic, gen.outcome)
    /\ UNCHANGED <<ledgerVars, response>>

NextCall ==
    \/ StartCall
    \/ InvokeRemote
    \/ RemoteReturns
    \/ Finish

SpecCall == Init /\ [][NextCall]_vars

\* after the remote call has returned or raised, the function runs to its
\* return statement: it waits for nothing
SpecCallFair == SpecCall /\ WF_vars(Finish)

(***************************************************************************)
(* Store calls of request threads running at the same time                 *)
(***************************************************************************)
\* the calls a thread makes: each opens its own connection
StoreCalls ==
    { [op |-> "add",
       arg |-> [amount |-> Fin(5), category |-> Food, note |-> <<>>,
                date |-> PNone]],
      [op |-> "list", arg |-> PNone] }
    \cup { [op |-> o, arg |-> [id |-> i]] : o \in {"delete", "get"}, i \in 1..MaxId }

\* the add calls that have not committed yet
AddsInFlight ==
    { q \in Threads : conns[q].pc # "idle" /\ conns[q].op = "add" }

\* sqlite3.connect(self.db_path): thread p enters a store call
OpenConnection ==
    \E p \in Threads, c \in StoreCalls :
        /\ conns[p].pc = "idle"
        /\ (c.op = "add") => (seq + Cardinality(AddsInFlight) < MaxId)
        /\ conns' = [conns EXCEPT ![p] = [pc |-> "open", op |-> c.op, arg |-> c.arg,
                                          pending |-> PNone, result |-> PNone]]
        /\ UNCHANGED <<expenses, seq, clock, returned, assigned, wins, writer,
                       dbCalled, request, response, gen>>

\* a store without the write lock: every connection may write at any time
LockIgnored(p) == TRUE

\* the database file's write lock is free for the connection of thread p
WriteLockFree(p) == writer = 0

\* the INSERT or DELETE of thread p runs in its connection's transaction: it
\* takes the write lock; its effect is not in the table before the commit
ExecuteWrite ==
    \E p \in Threads :
        /\ conns[p].pc = "open"
        /\ conns[p].op \in {"add", "delete"}
        /\ WriteLockFree(p)
        /\ writer' = p
        /\ conns' = [conns EXCEPT ![p].pc = "executed",
                                  ![p].pending =
                                      IF conns[p].op = "add"
                                      THEN db_add_expense(conns[p].arg.amount,
                                                          conns[p].arg.category,
                                                          conns[p].arg.note,
                                                          conns[p].arg.date)
                                      ELSE delete_expense(conns[p].arg.id)]
        /\ UNCHANGED <<expenses, seq, clock, returned, assigned, wins,
                       dbCalled, request, response, gen>>

\* conn.commit() of thread p: the row is in the table, or out of it, at once;
\* the lock is released and the call returns
Commit ==
    \E p \in Threads :
        /\ conns[p].pc = "executed"
        /\ writer' = 0
        /\ IF conns[p].op = "add"
           THEN /\ expenses' = expenses \cup {conns[p].pending.row}
                /\ seq' = conns[p].pending.row.id
                /\ assigned' = assigned \cup {conns[p].pending.row.id}
                /\ conns' = [conns EXCEPT ![p].pc = "idle",
                                          ![p].result = Return(conns[p].pending.v)]
                /\ UNCHANGED wins
           ELSE /\ expenses' = { r \in expenses : r.id # conns[p].arg.id }
                /\ wins' = IF conns[p].pending.success
                           THEN Won(conns[p].arg.id) ELSE wins
                /\ conns' = [conns EXCEPT ![p].pc = "idle",
                                          ![p].result =
                                              Return(PBool(conns[p].pending.success))]
                /\ UNCHANGED <<seq, assigned>>
        /\ UNCHANGED <<clock, returned, dbCalled, request, response, gen>>

\* the write of thread p waited for the lock until the connection's timeout:
\* sqlite3.OperationalError (database is locked), nothing written
Busy ==
    \E p \in Threads :
        /\ conns[p].pc = "open"
        /\ conns[p].op \in {"add", "delete"}
        /\ ~WriteLockFree(p)
        /\ writer # p
        /\ conns' = [conns EXCEPT ![p].pc = "idle",
                                  ![p].result = Raise("OperationalError")]
        /\ UNCHANGED <<expenses, seq, clock, returned, assigned, wins, writer,
                       dbCalled, request, response, gen>>

\* the SELECT of thread p: it reads the committed table
Read ==
    \E p \in Threads :
        /\ conns[p].pc = "open"
        /\ conns[p].op \in {"get", "list"}
        /\ IF conns[p].op = "get"
           THEN conns' = [conns EXCEPT ![p].pc = "idle",
                                      ![p].result =
                                          Return(get_expense_by_id(conns[p].arg.id))]
           ELSE \E listed \in get_all_expenses :
                    conns' = [conns EXCEPT ![p].pc = "idle",
                                          ![p].result = Return(PList(listed))]
        /\ UNCHANGED <<expenses, seq, clock, returned, assigned, wins, writer,
                       dbCalled, request, response, gen>>

NextConc ==
    \/ OpenConnection
    \/ ExecuteWrite
    \/ Commit
    \/ Busy
    \/ Read

SpecConc == Init /\ [][NextConc]_vars

NextGen ==
    \/ PostInterviewQuestions
    \/ PostInterviewQuestionsByDifficulty

SpecGen == Init /\ [][NextGen]_vars

NextLedger ==
    \/ AddExpense
    \/ GetAllExpenses
    \/ GetExpenseById
    \/ DeleteExpense
    \/ Tick

SpecLedger == Init /\ [][NextLedger]_vars

Next == NextLedger \/ NextGen \/ NextCall \/ NextConc

Spec == Init /\ [][Next]_vars

(***************************************************************************)
(* Properties of the question generator (SpecGen)                          *)
(***************************************************************************)
\* the reply of the last generator call, parsed
Parsed == JsonLoads(gen.outcome.content)

\* the remote call failed, or its reply is no JSON, or the parsed value has
\* no length of 5
RemoteFailed ==
    \/ gen.outcome.raises
    \/ ~Parsed.ok
    \/ ~HasLen(Parsed.v)
    \/ PyLen(Parsed.v) # NumQuestions

\* C1: whatever the remote call does (raises, answers no JSON, JSON of any
\* type, an array of fewer or more than 5 elements, or of exactly 5), the
\* value generate_interview_questions returns has exactly 5 items.
C1_AlwaysFiveItems ==
    gen.op # "none" => HasLen(gen.v) /\ PyLen(gen.v) = 5

\* the reply parsed to a value without a length (null, a number) and the
\* generator answered all the same
C1_Witness ==
    /\ gen.op # "none"
    /\ ~gen.outcome.raises
    /\ Parsed.ok
    /\ ~HasLen(Parsed.v)
    /\ PyLen(gen.v) = 5

\* C2: with a non-empty topic (and a recognised path difficulty) both
\* interview endpoints answer 200 whatever the remote call does, and
\* get_question_by_difficulty does not raise.
C2_NeverSurfaced ==
    gen.op # "none" => response.code = 200 /\ ~gen.filtered.raised

\* the fallback of section 6: template, then topic, then the rest; and the
\* difficulty of each slot
FallbackPrefix ==
    <<"What are the key concepts and principles in ",
      "How would you explain ",
      "What are the most common challenges when working with ",
      "Can you describe a real-world project where you applied ",
      "What resources would you recommend for someone learning ">>

FallbackSuffix ==
    <<"?", " to someone with no technical background?", "?", "?", "?">>

FallbackDifficulty ==
    <<Intermediate, Intermediate, Advanced, Advanced, Intermediate>>

IsFallbackOf(v, topic) ==
    /\ v.t = "list"
    /\ Len(v.a) = 5
    /\ \A i \in 1..5 :
          /\ v.a[i].t = "dict"
          /\ DictGet(v.a[i], QuestionKey, PNone)
                = PStr(<<FallbackPrefix[i]>> \o topic \o <<FallbackSuffix[i]>>)
          /\ DictGet(v.a[i], DifficultyKey, PNone) = PStr(FallbackDifficulty[i])

\* C3: when the remote call raises, or the reply is no JSON, or the parsed
\* value has not exactly 5 elements, the generator returns the five fixed
\* fallback questions for the topic, in order, tagged Intermediate,
\* Intermediate, Advanced, Advanced, Intermediate.
C3_FallbackContent ==
    (gen.op # "none" /\ RemoteFailed) => IsFallbackOf(gen.v, gen.topic)

\* a reply of 6 well-formed questions was answered by the fallback
C3_Witness ==
    /\ gen.op # "none"
    /\ ~gen.outcome.raises
    /\ Parsed.ok
    /\ Parsed.v.t = "list"
    /\ Len(Parsed.v.a) = 6
    /\ IsFallbackOf(gen.v, gen.topic)

\* the reply is "[" e1 "," e2 "," e3 "," e4 "," e5 "]"
IsArrayOfFive(text) ==
    /\ Len(text) = 11
    /\ text[1] = Tok("[")
    /\ text[11] = Tok("]")
    /\ \A i \in 1..5 : IsLit(text[2 * i])
    /\ \A i \in 1..4 : text[2 * i + 1] = Tok(",")

\* C4: when the remote call succeeds with a JSON array of exactly 5
\* elements, the generator returns those 5 elements, in the order received.
C4_SuccessUnchanged ==
    (gen.op # "none" /\ ~gen.outcome.raises /\ IsArrayOfFive(gen.outcome.content))
        => /\ gen.v.t = "list"
           /\ Len(gen.v.a) = 5
           /\ \A i \in 1..5 : gen.v.a[i] = gen.outcome.content[2 * i].v

\* five questions that arrived with an Intermediate one first were returned
C4_Witness ==
    /\ gen.op # "none"
    /\ ~gen.outcome.raises
    /\ IsArrayOfFive(gen.outcome.content)
    /\ gen.outcome.content[2].v = RemoteQuestion(5)
    /\ gen.v.t = "list"
    /\ gen.v.a[1] = RemoteQuestion(5)

(***************************************************************************)
(* Properties of the expense ledger (SpecLedger)                           *)
(***************************************************************************)
\* C5: a POST /api/expenses that validation rejects (400) does not call
\* add_expense, and no request that is not answered 201 changes the table.
C5_RejectedLeavesLedger ==
    [][(request'.op = "add" /\ response'.code # 201)
          => /\ expenses' = expenses
             /\ (response'.code = 400 => ~dbCalled')]_vars

\* a request was rejected while the ledger held a row
C5_Witness ==
    /\ request.op = "add"
    /\ response.code = 400
    /\ ~dbCalled
    /\ expenses # {}

\* C6: every stored row has an amount strictly greater than 0, whatever
\* values the handler's coercion and its amount <= 0 check let through.
C6_AmountPositive ==
    \A r \in expenses : GtZero(r.amount)

\* nan passed the handler's checks and was refused by the store, while an
\* infinite amount is stored
C6_Witness ==
    /\ request.op = "add"
    /\ Truthy(request.data)
    /\ ToFloat(DictGet(request.data, AmountKey, PNone)).f = NaN
    /\ dbCalled
    /\ response.code = 500
    /\ \E r \in expenses : r.amount = PosInf

\* s is YYYY-MM-DD: four digits, two digits, two digits, of a day that exists
IsIsoDate(s) ==
    /\ Len(s) = 10
    /\ s[5] = "-"
    /\ s[8] = "-"
    /\ \A i \in {1, 2, 3, 4, 6, 7, 9, 10} : IsDigit(s[i])
    /\ DecVal(SubSeq(s, 1, 4)) >= 1
    /\ DecVal(SubSeq(s, 6, 7)) \in 1..12
    /\ DecVal(SubSeq(s, 9, 10)) >= 1
    /\ DecVal(SubSeq(s, 9, 10))
          <= DaysInMonth(DecVal(SubSeq(s, 1, 4)), DecVal(SubSeq(s, 6, 7)))

\* C7: every stored row has a date that is a valid YYYY-MM-DD string; no
\* falsy date of the caller reaches storage.
C7_DateValid ==
    \A r \in expenses : IsIsoDate(r.date)

\* the last request carries a valid amount and category and a date key
\* whose value strptime does not parse
BadDateRequest ==
    /\ request.op = "add"
    /\ Truthy(request.data)
    /\ DictHas(request.data, AmountKey)
    /\ DictHas(request.data, CategoryKey)
    /\ ToFloat(DictGet(request.data, AmountKey, PNone)).ok
    /\ GtZero(ToFloat(DictGet(request.data, AmountKey, PNone)).f)
    /\ Strip(PyStr(DictGet(request.data, CategoryKey, PNone))) # <<>>
    /\ DictHas(request.data, DateKey)
    /\ \/ DictGet(request.data, DateKey, PNone).t # "str"
       \/ ~Strptime(DictGet(request.data, DateKey, PNone).s).ok

\* C8: a POST /api/expenses with valid amount and category and a date that
\* is not parseable as YYYY-MM-DD is answered 400.
C8_BadDateIs400 ==
    BadDateRequest => response.code = 400

\* C9: for a valid input, get_expense_by_id on the id add_expense returned
\* gives its id, amount, category, note and date, whatever was added or
\* deleted under other ids since.  (A date is text, or omitted.)
C9_AddThenGet ==
    \A i \in DOMAIN returned :
        returned[i].date.t = "str" =>
            /\ get_expense_by_id(i) # PNone
            /\ get_expense_by_id(i).id = returned[i].id
            /\ get_expense_by_id(i).amount = returned[i].amount
            /\ get_expense_by_id(i).category = returned[i].category
            /\ get_expense_by_id(i).note = returned[i].note
            /\ get_expense_by_id(i).date = returned[i].date

\* the first row, added with blanks around category and note, is still as
\* add_expense returned it after a second row was added and deleted
C9_Witness ==
    /\ 1 \in DOMAIN returned
    /\ returned[1].amount = PosInf
    /\ returned[1].category = PStr(Food)
    /\ returned[1].note = PStr(<<"x">>)
    /\ get_expense_by_id(1).note = PStr(<<"x">>)
    /\ request.op = "delete"
    /\ request.id = 2
    /\ response.code = 200

\* the day a stored date names, as a number that grows with the calendar
DayNumber(s) == Strptime(s).y * 10000 + Strptime(s).m * 100 + Strptime(s).d

\* C10: get_all_expenses returns every stored record exactly once, the most
\* recent calendar date first and, within a date, the most recently inserted
\* first.
C10_ListOrder ==
    request.op = "list" =>
        LET listed == response.body.data IN
        /\ Len(listed) = Cardinality(expenses)
        /\ \A r \in expenses : \E i \in DOMAIN listed : listed[i] = RowDict(r)
        /\ \A i, j \in DOMAIN listed :
              (i < j /\ Strptime(listed[i].date.s).ok /\ Strptime(listed[j].date.s).ok)
                 => \/ DayNumber(listed[i].date.s) > DayNumber(listed[j].date.s)
                    \/ /\ DayNumber(listed[i].date.s) = DayNumber(listed[j].date.s)
                       /\ listed[i].id > listed[j].id

\* C11: delete_expense(id) returns true exactly when a row with that id was
\* stored (so a second delete, or a delete of an id never given, is answered
\* 404 and not 500), leaves no row with that id and leaves every other row
\* as it was; a get of an id is answered 404 exactly when no row has it.
C11_DeleteThenGone ==
    [][/\ (request'.op = "delete" /\ clock' = clock)
            => /\ response'.code \in {200, 404}
               /\ (response'.code = 200) <=> (\E r \in expenses : r.id = request'.id)
               /\ \A r \in expenses' : r.id # request'.id
               /\ { r \in expenses' : r.id # request'.id }
                     = { r \in expenses : r.id # request'.id }
       /\ request'.op = "get"
            => /\ response'.code \in {200, 404}
               /\ (response'.code = 404)
                     <=> (\A r \in expenses' : r.id # request'.id)]_vars

\* an id that was given and deleted is deleted again (404) while another
\* row is still stored
C11_Witness ==
    /\ request.op = "delete"
    /\ response.code = 404
    /\ request.id <= seq
    /\ \A r \in expenses : r.id # request.id
    /\ expenses # {}

\* C12: the id add_expense assigns is greater than every id it assigned before,
\* whether or not the rows of those ids are still stored, so no id is given
\* twice and no two stored rows share an id.
C12_IdsNeverReused ==
    [][/\ \A i \in assigned' \ assigned : \A j \in assigned : i > j
       /\ \A r \in expenses' \ expenses :
             /\ r.id \in assigned' \ assigned
             /\ \A q \in expenses' : q.id = r.id => q = r
       /\ (request'.op = "add" /\ response'.code = 201 /\ clock' = clock)
             => /\ response'.body.data.id \notin assigned
                /\ assigned' = assigned \cup {response'.body.data.id}]_vars

\* an expense added after the row of the highest id was deleted
C12_Witness ==
    /\ request.op = "add"
    /\ response.code = 201
    /\ response.body.data.id = 2
    /\ wins[1] = 1
    /\ { r.id : r \in expenses } = {2}

\* C13: get_question_by_difficulty returns the generated set as it is for
\* "All"; for any other difficulty it returns, without raising, the items of
\* the generated set whose difficulty is the one asked for ignoring case, in
\* their order (0 to 5 of them); of a fallback set that is items 3 and 4 for
\* "Advanced" and the empty list for "Beginner".
C13_FilterSemantics ==
    gen.op = "by_difficulty" =>
        /\ ~gen.filtered.raised
        /\ (gen.difficulty = All) => (gen.filtered.v = gen.v)
        /\ (gen.difficulty # All) =>
              /\ gen.filtered.v
                    = PList(SelectSeq(Iterate(gen.v),
                                      LAMBDA q : Lower(DictGet(q, DifficultyKey, PStr(<<>>)).s)
                                                    = Lower(gen.difficulty)))
              /\ PyLen(gen.filtered.v) \in 0..5
        /\ (gen.path = "FALLBACK" /\ gen.difficulty = Advanced) =>
              (gen.filtered.v = PList(<<Iterate(gen.v)[3], Iterate(gen.v)[4]>>))
        /\ (gen.path = "FALLBACK" /\ gen.difficulty = Beginner) =>
              (gen.filtered.v = PList(<<>>))

\* C14 as claimed: the record a successful add_expense returns, the data of
\* the 201 response, carries the created_at of the inserted row besides id,
\* amount, category, note and date.
C14_ReturnsFullRecord ==
    (request.op = "add" /\ response.code = 201) =>
        /\ "created_at" \in DOMAIN response.body.data
        /\ \E r \in expenses :
              /\ r.id = response.body.data.id
              /\ r.created_at = response.body.data.created_at

\* C14: the record a successful add_expense returns has the keys id, amount,
\* category, note and date and no other; id is the id just generated, and
\* amount, category and note (and a text date) are those of the stored row of
\* that id.  created_at is not part of it.
C14_ReturnsStoredFields ==
    (request.op = "add" /\ response.code = 201) =>
        /\ DOMAIN response.body.data = {"id", "amount", "category", "note", "date"}
        /\ response.body.data.id = seq
        /\ \E r \in expenses :
              /\ r.id = response.body.data.id
              /\ response.body.data.amount = r.amount
              /\ response.body.data.category = PStr(r.category)
              /\ response.body.data.note = PStr(r.note)
              /\ (response.body.data.date.t = "str")
                    => (response.body.data.date = PStr(r.date))

\* a second expense added, after the clock moved: its row has a created_at
C14_Witness ==
    /\ request.op = "add"
    /\ response.code = 201
    /\ response.body.data.id = 2
    /\ \E r \in expenses : r.id = 2 /\ r.created_at = 1

\* C15: every response has the uniform envelope: a success (200, 201) carries
\* the keys status, message and data; a rejection carries status "error" and a
\* message, with code 400, 404 or 500.
C15_UniformEnvelope ==
    response # NoResponse =>
        /\ response.code \in {200, 201, 400, 404, 500}
        /\ (response.code \in {200, 201}) =>
              /\ {"status", "message", "data"} \subseteq DOMAIN response.body
              /\ response.body.status = "success"
        /\ (response.code \in {400, 404, 500}) =>
              /\ {"status", "message"} \subseteq DOMAIN response.body
              /\ response.body.status = "error"

\* an object with a non-empty question, a non-empty answer and a difficulty
IsQuestionObject(q) ==
    /\ q.t = "dict"
    /\ \A key \in {QuestionKey, AnswerKey, DifficultyKey} : DictHas(q, key)
    /\ \A key \in {QuestionKey, AnswerKey} :
          /\ DictGet(q, key, PNone).t = "str"
          /\ DictGet(q, key, PNone).s # <<>>

\* a list of 5 question objects
IsQuestionSet(v) ==
    /\ v.t = "list"
    /\ PyLen(v) = NumQuestions
    /\ \A i \in DOMAIN v.a : IsQuestionObject(v.a[i])

\* C16: a reply that parses but is no array of 5 question objects (a string
\* of 5 characters, an object of 5 keys, an array one of whose 5 elements is
\* no object or lacks a field) takes the fallback path, so every returned set
\* is a list of 5 objects with a non-empty question and answer and a
\* difficulty.
C16_ElementShapeGate ==
    gen.op # "none" =>
        /\ IsQuestionSet(gen.v)
        /\ (~gen.outcome.raises /\ Parsed.ok /\ ~IsQuestionSet(Parsed.v))
              => (gen.path = "FALLBACK")

(***************************************************************************)
(* Properties of one generator call (SpecCallFair)                         *)
(***************************************************************************)
\* C17: a call goes START -> REMOTE_CALL -> SUCCESS or FALLBACK and no other
\* way: the remote call is made exactly once before a terminal state, never a
\* second time, a terminal state is left only by a new call, and once the
\* remote call has returned or raised a terminal state is reached.
C17_CallStateMachine ==
    /\ [](gen.op = "call" =>
            /\ gen.path \in {"START", "REMOTE_CALL"} \cup Terminal
            /\ gen.calls = IF gen.path = "START" THEN 0 ELSE 1)
    /\ [][gen.op = "call" =>
            \/ gen'.path = gen.path
            \/ gen.path = "START" /\ gen'.path = "REMOTE_CALL"
            \/ gen.path = "REMOTE_CALL" /\ gen'.path \in Terminal
            \/ gen.path \in Terminal /\ gen'.path = "START" /\ gen'.calls = 0]_vars
    /\ (gen.op = "call" /\ gen.path = "REMOTE_CALL" /\ gen.replied)
          ~> (gen.op = "call" /\ gen.path \in Terminal)

\* the remote call raised and the call ended in the fallback after one call
C17_Witness ==
    /\ gen.op = "call"
    /\ gen.replied
    /\ gen.outcome.raises
    /\ gen.path = "FALLBACK"
    /\ gen.calls = 1

(***************************************************************************)
(* Properties of concurrent store calls (SpecConc)                         *)
(***************************************************************************)
\* thread p returns from a write in this step
Commits(p) == conns[p].pc = "executed" /\ conns'[p].pc = "idle"

\* thread p returns from a read in this step
Reads(p) ==
    /\ conns[p].pc = "open"
    /\ conns'[p].pc = "idle"
    /\ conns[p].op \in {"get", "list"}

\* the ids of the rows a finished get or list call returned
IdsRead(p) ==
    IF conns[p].pc # "idle" \/ conns[p].op \notin {"get", "list"}
       \/ conns[p].result = PNone
    THEN {}
    ELSE IF conns[p].op = "list"
    THEN { conns[p].result.v.a[i].id : i \in DOMAIN conns[p].result.v.a }
    ELSE IF conns[p].result.v = PNone THEN {}
    ELSE { conns[p].result.v.id }

\* C18: under every interleaving of the threads' store calls each call takes
\* effect in one step, as the call made alone on the table of that moment
\* would: the table changes only when a write commits, and then to the
\* sequential result, with the sequential return value; a read returns rows
\* of the committed table.  So stored ids are distinct, every added row is
\* stored until a delete returns True for it, no id has two deletes that
\* return True, and no read returns a row that is not committed.
C18_AtomicOperations ==
    /\ [](/\ \A r, q \in expenses : r.id = q.id => r = q
          /\ { r.id : r \in expenses } = { i \in assigned : wins[i] = 0 }
          /\ \A i \in Ids : wins[i] <= 1
          /\ \A p \in Threads : IdsRead(p) \subseteq assigned)
    /\ [][/\ (expenses' # expenses) => (\E p \in Threads : Commits(p))
          /\ \A p \in Threads :
                /\ (Commits(p) /\ conns[p].op = "add") =>
                      LET e == db_add_expense(conns[p].arg.amount,
                                              conns[p].arg.category,
                                              conns[p].arg.note, conns[p].arg.date)
                      IN  /\ expenses' = expenses \cup {e.row}
                          /\ conns'[p].result = Return(e.v)
                          /\ e.v.id \notin assigned
                /\ (Commits(p) /\ conns[p].op = "delete") =>
                      LET d == delete_expense(conns[p].arg.id)
                      IN  /\ expenses' = d.rows
                          /\ conns'[p].result = Return(PBool(d.success))
                /\ (Reads(p) /\ conns[p].op = "get") =>
                      (conns'[p].result = Return(get_expense_by_id(conns[p].arg.id)))
                /\ (Reads(p) /\ conns[p].op = "list") =>
                      (conns'[p].result.v.a \in get_all_expenses)]_vars

\* two deletes of the same stored id at the same time: one has run and holds
\* the write lock, the other has its connection open
C18_Witness ==
    \E p, q \in Threads :
        /\ p # q
        /\ conns[p].op = "delete" /\ conns[p].pc = "executed"
        /\ conns[q].op = "delete" /\ conns[q].pc = "open"
        /\ conns[p].arg.id = conns[q].arg.id
        /\ conns[p].pending.success
        /\ writer = p
        /\ \E r \in expenses : r.id = conns[p].arg.id

====
